---- MODULE Spec2Model ----
(***************************************************************************)
(* Model of the audio_doa component: the DOA tracker (audio_doa_tracker),  *)
(* the frame dispatcher with its worker task (audio_doa) and the facade    *)
(* (audio_doa_app).                                                        *)
(*                                                                         *)
(* Angles are fixed-point integers: one degree is Scale units.  Scale is   *)
(* divisible by 3..8 and by 10, so that the tracker's averages (a sum of   *)
(* bin centres divided by a total weight of 3..8) and its 0.3/0.7 bias mix *)
(* are exact; the float32 rounding of the C code is not modelled.          *)
(* Time is the FreeRTOS tick count.  A feed reads the tick count once.     *)
(***************************************************************************)
EXTENDS Integers, Sequences, FiniteSets, TLC

VARIABLES
    ctx,          \* audio_doa_tracker_ctx_t
    cfg,          \* the audio_doa_tracker_cfg_t handed to audio_doa_tracker_init
    now,          \* xTaskGetTickCount()
    ret,          \* esp_err_t returned by the last API call
    last_op,      \* the last tracker call and what it did
    result_cb,    \* the result-callback invocations since the last enable
    enable_cleared, \* the last enable call found a tracker state that was not the reset state
    feed_set,     \* the angles this run feeds
    near_90_since, \* tick of the first of the near-90 angles fed in a row up to now, or -1
    calib,        \* two raw angles and what doa_angle_calibration returned for them
    app,          \* audio_doa_app_t: the VAD flag and whether a monitor callback is installed
    doa,          \* audio_doa_t: state, START_BIT, callback, smoothing history, stream buffer
    worker_pc,    \* where audio_doa_thread stands
    writer,       \* the caller's data_write in progress, if it is blocked in xStreamBufferSend
    short_writes, \* number of data_write calls so far whose length was not a whole frame
    kernel_frames, \* for each esp_doa_process call, the stream offset of the frame it got
    monitor_calls, \* number of monitor-callback invocations
    gate_opened,  \* set_vad_detect(true) has been called
    frame_cbs,    \* what audio_doa_callback did for the last processed frame, in order
    life          \* what exists: the caller's handle, the allocations, the sub-handles

tracker_vars == <<ctx, cfg, ret, last_op, result_cb, enable_cleared, feed_set, calib, near_90_since>>

app_vars == <<app, doa, worker_pc, writer, short_writes, kernel_frames, monitor_calls, gate_opened,
              frame_cbs>>

vars == <<ctx, cfg, now, ret, last_op, result_cb, enable_cleared, feed_set, calib, near_90_since,
          app, doa, worker_pc, writer, short_writes, kernel_frames, monitor_calls,
          gate_opened, frame_cbs, life>>

(***************************************************************************)
(* Bounds of the model                                                     *)
(***************************************************************************)
MaxTick == 2
\* frames' worth of bytes a run may enqueue
MaxFrames == 6
\* data_write calls of a run whose length is not a whole frame
MaxShortWrites == 1
\* configTICK_RATE_HZ of the build (not fixed by the repository)
TickRateHz == 1
\* how far outside [0, 180] the raw angles of the calibration go, in degrees
RawMargin == 20

Scale == 3 * 5 * 7 * 8

Deg(d) == d * Scale

\* angles fed to the tracker: each run draws its feeds from one of these sets
FeedSets == {{Deg(10), Deg(92)}, {Deg(92), Deg(110)}}

\* angles at and beyond the ends of the range: below 0, 180, above 180
EdgeFeedSet == {Deg(0 - 5), Deg(180), Deg(200)}

\* the angles of the seed scenarios: only 90; 45 followed by near-90; 80 and
\* 100 in turn; 150, 160, 170 in turn
SeedFeedSets ==
    {{Deg(90)}, {Deg(45), Deg(92)}, {Deg(80), Deg(100)}, {Deg(150), Deg(160), Deg(170)}}

\* raw angles handed to doa_angle_calibration: every whole degree from
\* RawMargin below 0 to RawMargin above 180
RawAngles == {Deg(d) : d \in (0 - RawMargin) .. (180 + RawMargin)}

\* angles esp_doa_process returns
KernelAngles == {Deg(10)}

\* byte counts the caller hands to data_write (0 and -1 are invalid lengths)
WriteSizes == {-1, 0, 1024, 2048}

\* configurations handed to audio_doa_tracker_init
TrackerCfgs ==
    {[output_interval_ms |-> 1000, min_angle_change_threshold |-> 0],
     [output_interval_ms |-> 0, min_angle_change_threshold |-> Deg(10)]}

(***************************************************************************)
(* Constants of audio_doa_tracker.c                                        *)
(***************************************************************************)
DOA_TRACKER_BUFFER_SIZE == 6
RECENT_WEIGHT_FACTOR == 3
REASONABLE_CHANGE_THRESHOLD == Deg(40)
SILENT_ANGLE == Deg(90)
SILENT_ANGLE_THRESHOLD == Deg(6)
INITIAL_SAMPLES_TO_CHECK == 3
GRADUAL_CHANGE_THRESHOLD == Deg(20)
ANGLE_QUANTIZATION_STEP == Deg(20)
ANGLE_MIN == Deg(0)
ANGLE_MAX == Deg(180)
MAJOR_ANGLE_CHANGE_THRESHOLD == Deg(30)
CONTINUOUS_90_DURATION_MS == 1000
DEFAULT_MIN_ANGLE_CHANGE == Deg(15)

Slots == 0 .. (DOA_TRACKER_BUFFER_SIZE - 1)

Abs(x) == IF x < 0 THEN -x ELSE x

\* C's % on int: the remainder has the sign of the dividend
c_rem(a, b) == IF a >= 0 THEN a % b ELSE -((-a) % b)

\* pdMS_TO_TICKS
pdMS_TO_TICKS(ms) == (ms * TickRateHz) \div 1000

\* (int)(valid_count * BUFFER_90_RATIO_THRESHOLD): the float32 product of n and
\* 2/3 truncated towards zero, which for n in 0..6 is floor(2n/3)
buffer_90_required(n) == (2 * n) \div 3

is_near_90_degrees(angle) == Abs(angle - SILENT_ANGLE) < SILENT_ANGLE_THRESHOLD

count_near_90_in_buffer(c) ==
    Cardinality({i \in Slots : c.valid_mask[i] /\ is_near_90_degrees(c.original_buffer[i])})

buffer_mostly_90(c) ==
    IF c.valid_count = 0 THEN FALSE
    ELSE count_near_90_in_buffer(c) >= buffer_90_required(c.valid_count)

\* reset_90_tracking clearing the last-output tick along with the timer
reset_90_tracking_clears_output_tick(c) ==
    [c EXCEPT !.has_near_90_start = FALSE, !.first_near_90_tick = 0, !.last_output_tick = 0]

reset_90_tracking(c) ==
    [c EXCEPT !.has_near_90_start = FALSE, !.first_near_90_tick = 0]

start_90_tracking(c, tick) ==
    IF ~c.has_near_90_start
    THEN [c EXCEPT !.first_near_90_tick = tick, !.has_near_90_start = TRUE]
    ELSE c

\* returns the result and the context (the function sets is_front_facing_mode)
check_continuous_90_duration(c, tick) ==
    IF ~c.has_near_90_start THEN [ok |-> FALSE, ctx |-> c]
    ELSE IF (tick - c.first_near_90_tick) >= pdMS_TO_TICKS(CONTINUOUS_90_DURATION_MS)
         THEN [ok |-> TRUE, ctx |-> [c EXCEPT !.is_front_facing_mode = TRUE]]
         ELSE [ok |-> FALSE, ctx |-> c]

\* The loop of check_gradual_change_to_90 from iteration i on: the set of final
\* values of moving_towards_90.  idx is computed with C's %, so for
\* write_index = 0 and i = 5 it is -1: valid_mask[-1] and buffer[-1] are reads
\* outside the arrays, whose values are not determined by the tracker state;
\* that iteration may or may not count.  It is the last iteration.
RECURSIVE gradual_loop(_, _, _, _)
gradual_loop(c, i, moving_towards_90, last_checked) ==
    IF ~(i < DOA_TRACKER_BUFFER_SIZE /\ moving_towards_90 < 3) THEN {moving_towards_90}
    ELSE LET idx == c_rem(c.write_index - 2 - i + DOA_TRACKER_BUFFER_SIZE,
                          DOA_TRACKER_BUFFER_SIZE)
         IN IF idx \notin Slots
            THEN gradual_loop(c, i + 1, moving_towards_90, last_checked)
                 \cup gradual_loop(c, i + 1, moving_towards_90 + 1, last_checked)
            ELSE IF c.valid_mask[idx]
                 THEN gradual_loop(c, i + 1,
                        IF Abs(c.buffer[idx] - SILENT_ANGLE) < Abs(last_checked - SILENT_ANGLE)
                        THEN moving_towards_90 + 1 ELSE moving_towards_90,
                        c.buffer[idx])
                 ELSE gradual_loop(c, i + 1, moving_towards_90, last_checked)

\* the set of results the function can return
check_gradual_change_to_90(angle, c) ==
    IF ~c.has_last_valid_angle \/ c.valid_count < 3 THEN {FALSE}
    ELSE IF Abs(angle - c.last_valid_angle) >= GRADUAL_CHANGE_THRESHOLD THEN {FALSE}
    ELSE IF Abs(angle - SILENT_ANGLE) >= Abs(c.last_valid_angle - SILENT_ANGLE) THEN {FALSE}
    ELSE {n >= 3 : n \in gradual_loop(c, 0, 0, c.last_valid_angle)}

\* quantize_angle without the cap of the interval index at 8
quantize_angle_uncapped(angle) ==
    LET a == IF angle < ANGLE_MIN THEN ANGLE_MIN
             ELSE IF angle > ANGLE_MAX THEN ANGLE_MAX ELSE angle
        interval == a \div ANGLE_QUANTIZATION_STEP
    IN interval * ANGLE_QUANTIZATION_STEP + ANGLE_QUANTIZATION_STEP \div 2

\* quantize_angle returning the lower end of the interval, not its center
quantize_angle_no_center(angle) ==
    LET a == IF angle < ANGLE_MIN THEN ANGLE_MIN
             ELSE IF angle > ANGLE_MAX THEN ANGLE_MAX ELSE angle
        interval == a \div ANGLE_QUANTIZATION_STEP
        k == IF interval >= 9 THEN 8 ELSE interval
    IN k * ANGLE_QUANTIZATION_STEP

quantize_angle(angle) ==
    LET a == IF angle < ANGLE_MIN THEN ANGLE_MIN
             ELSE IF angle > ANGLE_MAX THEN ANGLE_MAX ELSE angle
        interval == a \div ANGLE_QUANTIZATION_STEP
        k == IF interval >= 9 THEN 8 ELSE interval
    IN k * ANGLE_QUANTIZATION_STEP + ANGLE_QUANTIZATION_STEP \div 2

\* the set of [valid, ctx] outcomes: the result and the context it leaves
is_angle_valid(angle, c, tick) ==
    IF ~is_near_90_degrees(angle)
    THEN {[valid |-> TRUE, ctx |-> reset_90_tracking(c)]}
    ELSE IF c.is_front_facing_mode
    THEN {[valid |-> TRUE, ctx |-> c]}
    ELSE LET c1 == start_90_tracking(c, tick)
             dur == check_continuous_90_duration(c1, tick)
         IN IF dur.ok THEN {[valid |-> TRUE, ctx |-> dur.ctx]}
            ELSE IF c1.valid_count < INITIAL_SAMPLES_TO_CHECK
            THEN {[valid |-> TRUE, ctx |-> c1]}
            ELSE IF ~c1.has_last_valid_angle
            THEN {[valid |-> buffer_mostly_90(c1), ctx |-> c1]}
            ELSE IF is_near_90_degrees(c1.last_valid_angle)
            THEN {[valid |-> Abs(angle - c1.last_valid_angle) < GRADUAL_CHANGE_THRESHOLD,
                   ctx |-> c1]}
            ELSE LET c2 == reset_90_tracking(c1)
                 IN {[valid |-> (g \/ buffer_mostly_90(c2)), ctx |-> c2] :
                        g \in check_gradual_change_to_90(angle, c2)}

\* the first INITIAL_SAMPLES_TO_CHECK occupied slots in index order
RECURSIVE initial_probe(_, _, _, _)
initial_probe(c, i, checked, near_90_count) ==
    IF ~(i < DOA_TRACKER_BUFFER_SIZE /\ checked < INITIAL_SAMPLES_TO_CHECK)
    THEN [checked |-> checked, near_90_count |-> near_90_count]
    ELSE IF c.valid_mask[i]
         THEN initial_probe(c, i + 1, checked + 1,
                IF is_near_90_degrees(c.original_buffer[i])
                THEN near_90_count + 1 ELSE near_90_count)
         ELSE initial_probe(c, i + 1, checked, near_90_count)

\* check_initial_samples marking the tracker not front-facing whatever it finds
check_initial_samples_always_marks_not_front(c) ==
    IF c.initial_samples_count >= INITIAL_SAMPLES_TO_CHECK
       \/ c.valid_count < INITIAL_SAMPLES_TO_CHECK
    THEN c
    ELSE LET p == initial_probe(c, 0, 0, 0)
         IN IF p.checked >= INITIAL_SAMPLES_TO_CHECK
            THEN [c EXCEPT !.is_front_facing_mode =
                               (p.near_90_count >= INITIAL_SAMPLES_TO_CHECK),
                           !.is_not_front_facing_detected = TRUE,
                           !.initial_samples_count = INITIAL_SAMPLES_TO_CHECK]
            ELSE c

check_initial_samples(c) ==
    IF c.initial_samples_count >= INITIAL_SAMPLES_TO_CHECK
       \/ c.valid_count < INITIAL_SAMPLES_TO_CHECK
    THEN c
    ELSE LET p == initial_probe(c, 0, 0, 0)
         IN IF p.checked >= INITIAL_SAMPLES_TO_CHECK
            THEN IF p.near_90_count >= INITIAL_SAMPLES_TO_CHECK
                 THEN [c EXCEPT !.is_front_facing_mode = TRUE,
                                !.initial_samples_count = INITIAL_SAMPLES_TO_CHECK]
                 ELSE [c EXCEPT !.is_not_front_facing_detected = TRUE,
                                !.initial_samples_count = INITIAL_SAMPLES_TO_CHECK]
            ELSE c

\* apply_angle_bias with the sign of the 0.7 term slipped in the lower branch
apply_angle_bias_sign_slip(avg_angle, min_angle, max_angle) ==
    IF avg_angle >= Deg(110) /\ avg_angle <= Deg(180)
    THEN (3 * avg_angle + 7 * max_angle) \div 10
    ELSE IF avg_angle >= Deg(0) /\ avg_angle <= Deg(40)
    THEN (3 * avg_angle - 7 * min_angle) \div 10
    ELSE avg_angle

apply_angle_bias(avg_angle, min_angle, max_angle) ==
    IF avg_angle >= Deg(110) /\ avg_angle <= Deg(180)
    THEN (3 * avg_angle + 7 * max_angle) \div 10
    ELSE IF avg_angle >= Deg(0) /\ avg_angle <= Deg(40)
    THEN (3 * avg_angle + 7 * min_angle) \div 10
    ELSE avg_angle

\* sum of f[i] over the slots i < n
RECURSIVE slot_sum(_, _)
slot_sum(f, n) == IF n = 0 THEN 0 ELSE f[n - 1] + slot_sum(f, n - 1)

\* running minimum / maximum over the occupied slots, from the initial value
RECURSIVE slot_min(_, _, _)
slot_min(c, n, start) ==
    IF n = 0 THEN start
    ELSE LET m == slot_min(c, n - 1, start)
         IN IF c.valid_mask[n - 1] /\ c.buffer[n - 1] < m THEN c.buffer[n - 1] ELSE m

RECURSIVE slot_max(_, _, _)
slot_max(c, n, start) ==
    IF n = 0 THEN start
    ELSE LET m == slot_max(c, n - 1, start)
         IN IF c.valid_mask[n - 1] /\ c.buffer[n - 1] > m THEN c.buffer[n - 1] ELSE m

\* calculate_first_output_angle without the edge bias
calculate_first_output_angle_unbiased(c) ==
    IF c.valid_count = 0 THEN 0
    ELSE LET sum == slot_sum([i \in Slots |-> IF c.valid_mask[i] THEN c.buffer[i] ELSE 0],
                             DOA_TRACKER_BUFFER_SIZE)
             count == Cardinality({i \in Slots : c.valid_mask[i]})
         IN IF count = 0 THEN 0 ELSE sum \div count

calculate_first_output_angle(c) ==
    IF c.valid_count = 0 THEN 0
    ELSE LET sum == slot_sum([i \in Slots |-> IF c.valid_mask[i] THEN c.buffer[i] ELSE 0],
                             DOA_TRACKER_BUFFER_SIZE)
             count == Cardinality({i \in Slots : c.valid_mask[i]})
         IN IF count = 0 THEN 0
            ELSE apply_angle_bias(sum \div count,
                                  slot_min(c, DOA_TRACKER_BUFFER_SIZE, Deg(180)),
                                  slot_max(c, DOA_TRACKER_BUFFER_SIZE, Deg(0)))

calculate_average_angle(c) ==
    IF c.valid_count = 0 THEN 0
    ELSE LET latest_idx == c_rem(c.write_index - 1 + DOA_TRACKER_BUFFER_SIZE,
                                 DOA_TRACKER_BUFFER_SIZE)
             weight == [i \in Slots |-> IF i = latest_idx THEN RECENT_WEIGHT_FACTOR ELSE 1]
             weighted_sum == slot_sum([i \in Slots |-> IF c.valid_mask[i]
                                                       THEN c.buffer[i] * weight[i] ELSE 0],
                                      DOA_TRACKER_BUFFER_SIZE)
             total_weight == slot_sum([i \in Slots |-> IF c.valid_mask[i]
                                                       THEN weight[i] ELSE 0],
                                      DOA_TRACKER_BUFFER_SIZE)
         IN IF total_weight = 0 THEN 0
            ELSE apply_angle_bias(weighted_sum \div total_weight,
                                  slot_min(c, DOA_TRACKER_BUFFER_SIZE, Deg(180)),
                                  slot_max(c, DOA_TRACKER_BUFFER_SIZE, Deg(0)))

\* should_allow_90_output reduced to its buffer check
should_allow_90_output_buffer_only(c, current_tick) ==
    ~(count_near_90_in_buffer(c) < buffer_90_required(c.valid_count))

should_allow_90_output(c, current_tick) ==
    IF count_near_90_in_buffer(c) < buffer_90_required(c.valid_count) THEN FALSE
    ELSE IF c.is_front_facing_mode THEN TRUE
    ELSE IF ~c.has_near_90_start
            \/ (current_tick - c.first_near_90_tick) < pdMS_TO_TICKS(CONTINUOUS_90_DURATION_MS)
    THEN FALSE
    ELSE TRUE

\* reset_tracker_state without the has_output_angle = false line
reset_keeps_has_output_angle(c) ==
    [c EXCEPT !.write_index = 0,
              !.valid_count = 0,
              !.is_front_facing_mode = FALSE,
              !.is_not_front_facing_detected = FALSE,
              !.initial_samples_count = 0,
              !.last_valid_angle = 0,
              !.has_last_valid_angle = FALSE,
              !.last_output_angle = 0,
              !.has_near_90_start = FALSE,
              !.first_near_90_tick = 0,
              !.last_output_tick = 0,
              !.buffer = [i \in Slots |-> 0],
              !.original_buffer = [i \in Slots |-> 0],
              !.valid_mask = [i \in Slots |-> FALSE]]

\* reset_tracker_state without the initial_samples_count = 0 line
reset_keeps_initial_samples_count(c) ==
    [c EXCEPT !.write_index = 0,
              !.valid_count = 0,
              !.is_front_facing_mode = FALSE,
              !.is_not_front_facing_detected = FALSE,
              !.last_valid_angle = 0,
              !.has_last_valid_angle = FALSE,
              !.last_output_angle = 0,
              !.has_output_angle = FALSE,
              !.has_near_90_start = FALSE,
              !.first_near_90_tick = 0,
              !.last_output_tick = 0,
              !.buffer = [i \in Slots |-> 0],
              !.original_buffer = [i \in Slots |-> 0],
              !.valid_mask = [i \in Slots |-> FALSE]]

\* reset_tracker_state without the last_output_tick = 0 line
reset_keeps_last_output_tick(c) ==
    [c EXCEPT !.write_index = 0,
              !.valid_count = 0,
              !.is_front_facing_mode = FALSE,
              !.is_not_front_facing_detected = FALSE,
              !.initial_samples_count = 0,
              !.last_valid_angle = 0,
              !.has_last_valid_angle = FALSE,
              !.last_output_angle = 0,
              !.has_output_angle = FALSE,
              !.has_near_90_start = FALSE,
              !.first_near_90_tick = 0,
              !.buffer = [i \in Slots |-> 0],
              !.original_buffer = [i \in Slots |-> 0],
              !.valid_mask = [i \in Slots |-> FALSE]]

reset_tracker_state(c) ==
    [c EXCEPT !.write_index = 0,
              !.valid_count = 0,
              !.is_front_facing_mode = FALSE,
              !.is_not_front_facing_detected = FALSE,
              !.initial_samples_count = 0,
              !.last_valid_angle = 0,
              !.has_last_valid_angle = FALSE,
              !.last_output_angle = 0,
              !.has_output_angle = FALSE,
              !.has_near_90_start = FALSE,
              !.first_near_90_tick = 0,
              !.last_output_tick = 0,
              !.buffer = [i \in Slots |-> 0],
              !.original_buffer = [i \in Slots |-> 0],
              !.valid_mask = [i \in Slots |-> FALSE]]

\* the context audio_doa_tracker_init builds from cfg (calloc, then the assignments)
audio_doa_tracker_init(c) ==
    reset_tracker_state(
        [enabled |-> FALSE,
         buffer |-> [i \in Slots |-> 0],
         original_buffer |-> [i \in Slots |-> 0],
         valid_mask |-> [i \in Slots |-> FALSE],
         write_index |-> 0,
         valid_count |-> 0,
         is_front_facing_mode |-> FALSE,
         is_not_front_facing_detected |-> FALSE,
         initial_samples_count |-> 0,
         last_valid_angle |-> 0,
         has_last_valid_angle |-> FALSE,
         last_output_angle |-> 0,
         has_output_angle |-> FALSE,
         first_near_90_tick |-> 0,
         has_near_90_start |-> FALSE,
         output_interval_ms |-> IF c.output_interval_ms > 0 THEN c.output_interval_ms ELSE 0,
         last_output_tick |-> 0,
         min_angle_change_threshold |->
             IF c.min_angle_change_threshold > 0 THEN c.min_angle_change_threshold
             ELSE DEFAULT_MIN_ANGLE_CHANGE])

\* the timing check dropped
output_interval_ignored(c, current_tick) == TRUE

\* "Check timing" of the subsequent-output branch
output_interval_elapsed(c, current_tick) ==
    c.output_interval_ms = 0
    \/ (current_tick - c.last_output_tick) >= pdMS_TO_TICKS(c.output_interval_ms)

\* "Special check for 90-degree output"
allow_90_check(c, avg_angle, current_tick) ==
    IF Abs(avg_angle - SILENT_ANGLE) < Deg(5)
    THEN should_allow_90_output(c, current_tick)
    ELSE TRUE

\* the change check without its "too small" branch
angle_change_allowed_no_min(c, avg_angle) ==
    Abs(avg_angle - c.last_output_angle) <= REASONABLE_CHANGE_THRESHOLD

\* "Check angle change thresholds": the change is neither too large nor too small
angle_change_allowed(c, avg_angle) ==
    LET angle_change == Abs(avg_angle - c.last_output_angle)
    IN IF angle_change > REASONABLE_CHANGE_THRESHOLD THEN FALSE
       ELSE IF c.min_angle_change_threshold > 0
               /\ angle_change < c.min_angle_change_threshold THEN FALSE
       ELSE TRUE

\* the output logic of audio_doa_tracker_feed: [should_output, avg_angle]
output_logic(c, current_tick) ==
    IF ~c.has_output_angle
    THEN IF c.valid_count >= DOA_TRACKER_BUFFER_SIZE
         THEN [should_output |-> TRUE, avg_angle |-> calculate_first_output_angle(c)]
         ELSE [should_output |-> FALSE, avg_angle |-> 0]
    ELSE IF c.valid_count >= DOA_TRACKER_BUFFER_SIZE /\ output_interval_elapsed(c, current_tick)
         THEN LET avg_angle == calculate_average_angle(c)
              IN [should_output |-> allow_90_check(c, avg_angle, current_tick)
                                    /\ angle_change_allowed(c, avg_angle),
                  avg_angle |-> avg_angle]
         ELSE [should_output |-> FALSE, avg_angle |-> 0]

\* "Add to buffer" counting every insert, into a free slot or not
insert_angle_always_counts(c, angle, quantized_angle) ==
    [c EXCEPT !.valid_count = @ + 1,
              !.buffer[c.write_index] = quantized_angle,
              !.original_buffer[c.write_index] = angle,
              !.valid_mask[c.write_index] = TRUE,
              !.write_index = (c.write_index + 1) % DOA_TRACKER_BUFFER_SIZE,
              !.last_valid_angle = quantized_angle,
              !.has_last_valid_angle = TRUE]

\* "Add to buffer" and the last-valid update
insert_angle(c, angle, quantized_angle) ==
    [c EXCEPT !.valid_count = IF ~c.valid_mask[c.write_index] THEN @ + 1 ELSE @,
              !.buffer[c.write_index] = quantized_angle,
              !.original_buffer[c.write_index] = angle,
              !.valid_mask[c.write_index] = TRUE,
              !.write_index = (c.write_index + 1) % DOA_TRACKER_BUFFER_SIZE,
              !.last_valid_angle = quantized_angle,
              !.has_last_valid_angle = TRUE]

\* the major-change check dropped
major_change_no_reset(c, angle, current_avg, has_valid_samples) == c

\* the major-change reset
major_change_reset(c, angle, current_avg, has_valid_samples) ==
    IF has_valid_samples /\ c.valid_count >= DOA_TRACKER_BUFFER_SIZE
       /\ Abs(angle - current_avg) > MAJOR_ANGLE_CHANGE_THRESHOLD
    THEN reset_tracker_state(c)
    ELSE c

\* One accepted feed after is_angle_valid: the context left behind, whether the
\* result callback is called, with which angle, and in which output mode
accept_angle(c, angle, current_avg, has_valid_samples, current_tick) ==
    LET c3 == major_change_reset(c, angle, current_avg, has_valid_samples)
        c4 == insert_angle(c3, angle, quantize_angle(angle))
        c5 == check_initial_samples(c4)
        out == output_logic(c5, current_tick)
    IN IF out.should_output
       THEN [ctx |-> [c5 EXCEPT !.last_output_angle = out.avg_angle,
                                !.has_output_angle = TRUE,
                                !.last_output_tick = current_tick],
             ret |-> "ESP_OK", did |-> "feed_emitted", avg_angle |-> out.avg_angle,
             subsequent |-> c5.has_output_angle]
       ELSE [ctx |-> c5, ret |-> "ESP_OK", did |-> "feed_stored", avg_angle |-> 0,
             subsequent |-> FALSE]

\* audio_doa_tracker_feed without the enabled check
feed_without_enabled_check(c, angle, current_tick) ==
    LET current_avg == calculate_average_angle(c)
        has_valid_samples == c.valid_count > 0
    IN {IF v.valid
        THEN accept_angle(v.ctx, angle, current_avg, has_valid_samples, current_tick)
        ELSE [ctx |-> v.ctx, ret |-> "ESP_OK", did |-> "feed_rejected", avg_angle |-> 0,
              subsequent |-> FALSE] :
        v \in is_angle_valid(angle, c, current_tick)}

\* audio_doa_tracker_feed from the statement after the enabled check on: the
\* set of outcomes
feed_past_enabled_check(c, angle, current_tick) ==
    LET current_avg == calculate_average_angle(c)
        has_valid_samples == c.valid_count > 0
    IN {IF v.valid
        THEN accept_angle(v.ctx, angle, current_avg, has_valid_samples, current_tick)
        ELSE [ctx |-> v.ctx, ret |-> "ESP_OK", did |-> "feed_rejected", avg_angle |-> 0,
              subsequent |-> FALSE] :
        v \in is_angle_valid(angle, c, current_tick)}

\* audio_doa_tracker_feed on a non-NULL handle: the set of outcomes
audio_doa_tracker_feed(c, angle, current_tick) ==
    IF ~c.enabled
    THEN {[ctx |-> c, ret |-> "ESP_OK", did |-> "feed_disabled", avg_angle |-> 0,
           subsequent |-> FALSE]}
    ELSE feed_past_enabled_check(c, angle, current_tick)

\* audio_doa_tracker_enable on a non-NULL handle
audio_doa_tracker_enable(c, enable) ==
    reset_tracker_state([c EXCEPT !.enabled = enable])

(***************************************************************************)
(* Record of the angles passed to audio_doa_tracker_feed                   *)
(***************************************************************************)
\* the tick of the first of the near-90 angles fed in a row, after one more
\* angle is fed at tick
near_90_run(since, angle, tick) ==
    IF ~is_near_90_degrees(angle) THEN -1
    ELSE IF since >= 0 THEN since
    ELSE tick

(***************************************************************************)
(* Record of the result-callback invocations                               *)
(***************************************************************************)
NoResults == [count |-> 0, angle |-> 0, tick |-> 0, subsequent |-> FALSE]

\* count saturates at 2: none, one, two or more
RecordResult(r, avg_angle, tick, subsequent) ==
    [count |-> IF r.count < 2 THEN r.count + 1 ELSE 2,
     angle |-> avg_angle, tick |-> tick, subsequent |-> subsequent]

(***************************************************************************)
(* Constants of audio_doa.c                                                *)
(***************************************************************************)
AUDIO_DOA_DATA_BUS_SIZE == 2048
DOA_WINDOW_SIZE == 7
\* xStreamBufferCreate(AUDIO_DOA_DATA_BUS_SIZE * 3, AUDIO_DOA_DATA_BUS_SIZE): capacity of
\* three frames, trigger level of one frame
STREAM_BUFFER_SIZE == AUDIO_DOA_DATA_BUS_SIZE * 3

MaxBytes == MaxFrames * AUDIO_DOA_DATA_BUS_SIZE

Window == 0 .. (DOA_WINDOW_SIZE - 1)

\* generate_gaussian_weights(weights, 7, 1.0): exp(-(i-3)^2 / 2) normalised,
\* in units of 1/10000 (0.0044, 0.0540, 0.2420, 0.3991, ...)
gaussian_weights == [i \in Window |-> <<44, 540, 2420, 3991, 2420, 540, 44>>[i + 1]]

\* moving_weighted_average reading the history from the slot after
\* current_index down, as if the index had been advanced before the call
moving_weighted_average_advanced_index(data, window_size, weights, current_index) ==
    LET data_index(i) == c_rem(current_index + 1 - i + window_size, window_size)
        sum == slot_sum([i \in 0 .. (window_size - 1) |-> data[data_index(i)] * weights[i]],
                        window_size)
        weight_sum == slot_sum(weights, window_size)
    IN sum \div weight_sum

moving_weighted_average(data, window_size, weights, current_index) ==
    LET data_index(i) == c_rem(current_index - i + window_size, window_size)
        sum == slot_sum([i \in 0 .. (window_size - 1) |-> data[data_index(i)] * weights[i]],
                        window_size)
        weight_sum == slot_sum(weights, window_size)
    IN sum \div weight_sum

\* doa_angle_calibration without the clamp of the corrected angle
doa_angle_calibration_no_output_clamp(raw_angle) ==
    LET raw == IF raw_angle < 0 THEN 0
               ELSE IF raw_angle > Deg(180) THEN Deg(180) ELSE raw_angle
        center == Deg(90)
        offset_from_center == raw - center
        abs_offset == Abs(offset_from_center)
        correction_extra == abs_offset \div 360
        extra == (abs_offset * correction_extra) \div Scale
    IN IF offset_from_center >= 0
       THEN center + offset_from_center + extra
       ELSE center + offset_from_center - extra

\* corrected = 90 + off * correction_factor, correction_factor = 1 + |off| / 90 * 0.25,
\* clamped to [0, 180]
doa_angle_calibration(raw_angle) ==
    LET raw == IF raw_angle < 0 THEN 0
               ELSE IF raw_angle > Deg(180) THEN Deg(180) ELSE raw_angle
        center == Deg(90)
        offset_from_center == raw - center
        abs_offset == Abs(offset_from_center)
        \* correction_factor - 1 = (abs_offset / 90) * 0.25, in units of 1/Scale
        correction_extra == abs_offset \div 360
        extra == (abs_offset * correction_extra) \div Scale
        corrected_angle == IF offset_from_center >= 0
                           THEN center + offset_from_center + extra
                           ELSE center + offset_from_center - extra
    IN IF corrected_angle < 0 THEN 0
       ELSE IF corrected_angle > Deg(180) THEN Deg(180) ELSE corrected_angle

\* no angle calibrated: the results are not there yet
NotCalibrated == 0 - 1
NoCalibration == [raw_a |-> 0, raw_b |-> 0, out_a |-> NotCalibrated, out_b |-> NotCalibrated]

\* bytes in the stream buffer / free space: the buffer holds the bytes
\* head .. tail-1 of the stream the caller enqueued
bytes_available(d) == d.tail - d.head
spaces_available(d) == STREAM_BUFFER_SIZE - (d.tail - d.head)

\* bytes the worker took out of the stream buffer without handing them to
\* esp_doa_process
dropped_bytes == doa.head - AUDIO_DOA_DATA_BUS_SIZE * Len(kernel_frames)

(***************************************************************************)
(* The state audio_doa_app_create leaves: dispatcher started, tracker      *)
(* enabled with the facade's configuration, VAD gate closed                *)
(***************************************************************************)
\* filtered_direction is the worker's local of that name: the smoothed angle
\* of the last frame it processed
audio_doa_new ==
    [state |-> "IDLE", start_bit |-> FALSE, cb |-> FALSE,
     doa_history |-> [i \in Window |-> 0], doa_history_index |-> 0,
     filtered_direction |-> 0,
     head |-> 0, tail |-> 0]

audio_doa_start(d) == [d EXCEPT !.state = "RUNNING", !.start_bit = TRUE]

audio_doa_stop_draining(d) ==
    [d EXCEPT !.state = "IDLE", !.start_bit = FALSE, !.head = d.tail]

audio_doa_stop(d) == [d EXCEPT !.state = "IDLE", !.start_bit = FALSE]

\* the tracker configuration audio_doa_app_create builds
app_tracker_cfg == [output_interval_ms |-> 1000, min_angle_change_threshold |-> 0]

\* everything audio_doa_new allocates or spawns, in the order it does
DispatcherSteps ==
    <<"doa", "event_group", "stream_buffer", "kernel", "audio_data", "gaussian_weights",
      "mic_left", "mic_right", "task">>

DispatcherResources == {DispatcherSteps[i] : i \in DOMAIN DispatcherSteps}

\* no facade: the caller's handle variable is NULL and nothing is allocated
NoFacade ==
    [handle |-> FALSE, allocated |-> {}, doa_handle |-> "null", tracker_handle |-> "null",
     distance |-> "none", crashed |-> FALSE]

\* a facade whose create returned ESP_OK: handle published, dispatcher and
\* tracker allocated, the kernel created with mic distance d
LiveFacade(d) ==
    [handle |-> TRUE, allocated |-> {"app", "tracker"} \cup DispatcherResources,
     doa_handle |-> "valid", tracker_handle |-> "valid", distance |-> d, crashed |-> FALSE]

\* dispatcher and facade variables of a created facade
InitDispatcher ==
    /\ life = LiveFacade("default")
    /\ app \in [vad_detect : {FALSE}, monitor : BOOLEAN]
    /\ doa = audio_doa_start([audio_doa_new EXCEPT !.cb = TRUE])
    /\ worker_pc = "wait_bits"
    /\ writer = [pc |-> "idle", size |-> 0]
    /\ short_writes = 0
    /\ kernel_frames = <<>>
    /\ monitor_calls = 0
    /\ gate_opened = FALSE
    /\ frame_cbs = <<>>

\* audio_doa_app_create passes a NULL config to audio_doa_new, which reads
\* config->distance; the facade exists only in the runs where that read
\* yields a value and create goes on to return ESP_OK, and those are the
\* runs that start here
InitApp ==
    /\ cfg = app_tracker_cfg
    /\ ctx = audio_doa_tracker_enable(audio_doa_tracker_init(cfg), TRUE)
    /\ now = 0
    /\ ret = "ESP_OK"
    /\ last_op = "create"
    /\ result_cb = NoResults
    /\ enable_cleared = FALSE
    /\ feed_set = {}
    /\ near_90_since = -1
    /\ calib = NoCalibration
    /\ InitDispatcher

(***************************************************************************)
(* The caller: data_write, set_vad_detect, start, stop                     *)
(***************************************************************************)
CallerIdle == writer.pc = "idle" /\ ~life.crashed

\* a non-NULL handle the caller can pass: its handle variable refers to a
\* facade instance that is still allocated
HandleUsable == life.handle /\ "app" \in life.allocated /\ life.doa_handle # "dangling"

\* the worker task exists
WorkerExists == "task" \in life.allocated /\ ~life.crashed

IsShortWrite(bytes_size) == bytes_size > 0 /\ bytes_size % AUDIO_DOA_DATA_BUS_SIZE # 0

\* what audio_doa_app_data_write decides before any byte is sent:
\* "BadArg", "Gated" (VAD gate closed) or "Send"
app_data_write_gate_ignored(a, handle_ok, data_ok, bytes_size) ==
    IF ~handle_ok \/ ~data_ok \/ bytes_size <= 0 THEN "BadArg" ELSE "Send"

app_data_write_path(a, handle_ok, data_ok, bytes_size) ==
    IF ~handle_ok \/ ~data_ok \/ bytes_size <= 0 THEN "BadArg"
    ELSE IF a.vad_detect = FALSE THEN "Gated"
    ELSE "Send"

\* audio_doa_data_write's return code once xStreamBufferSend has returned
data_write_result_always_ok(bytes_sent, data_size) == "ESP_OK"

data_write_result(bytes_sent, data_size) ==
    IF bytes_sent # data_size THEN "ESP_FAIL" ELSE "ESP_OK"

\* audio_doa_app_data_write -> audio_doa_data_write -> xStreamBufferSend.  The
\* send completes at once when the bytes fit; otherwise the caller blocks (up
\* to 10 ms) in xStreamBufferSend.
DataWrite(handle_ok, data_ok, bytes_size) ==
    /\ CallerIdle
    /\ handle_ok => HandleUsable
    /\ doa.tail + (IF bytes_size > 0 THEN bytes_size ELSE 0) <= MaxBytes
    /\ short_writes' = IF IsShortWrite(bytes_size) THEN short_writes + 1 ELSE short_writes
    /\ short_writes' <= MaxShortWrites
    /\ LET path == app_data_write_path(app, handle_ok, data_ok, bytes_size)
       IN /\ last_op' = "data_write"
          /\ IF path = "BadArg"
             THEN /\ ret' = "ESP_ERR_INVALID_ARG"
                  /\ UNCHANGED <<doa, writer>>
             ELSE IF path = "Gated"
             THEN /\ ret' = "ESP_OK"
                  /\ UNCHANGED <<doa, writer>>
             ELSE IF life.doa_handle = "null"
             THEN /\ ret' = "ESP_ERR_INVALID_ARG"
                  /\ UNCHANGED <<doa, writer>>
             ELSE IF spaces_available(doa) >= bytes_size
             THEN /\ doa' = [doa EXCEPT !.tail = @ + bytes_size]
                  /\ ret' = data_write_result(bytes_size, bytes_size)
                  /\ UNCHANGED writer
             ELSE /\ writer' = [pc |-> "blocked", size |-> bytes_size]
                  /\ UNCHANGED <<doa, ret>>
    /\ UNCHANGED <<ctx, cfg, now, result_cb, enable_cleared, feed_set, calib, near_90_since>>
    /\ UNCHANGED <<app, worker_pc, kernel_frames, monitor_calls, gate_opened, frame_cbs, life>>

\* xStreamBufferSend returns from its wait: the space it needs has appeared,
\* or the wait timed out; it writes as many bytes as fit and returns that
\* count, and audio_doa_data_write returns ESP_FAIL unless it is all of them
DataWriteUnblock ==
    /\ writer.pc = "blocked"
    /\ ~life.crashed
    /\ LET bytes_sent == IF spaces_available(doa) >= writer.size THEN writer.size
                         ELSE spaces_available(doa)
       IN /\ doa' = [doa EXCEPT !.tail = @ + bytes_sent]
          /\ ret' = data_write_result(bytes_sent, writer.size)
    /\ writer' = [pc |-> "idle", size |-> 0]
    /\ last_op' = "data_write"
    /\ UNCHANGED short_writes
    /\ UNCHANGED <<ctx, cfg, now, result_cb, enable_cleared, feed_set, calib, near_90_since>>
    /\ UNCHANGED <<app, worker_pc, kernel_frames, monitor_calls, gate_opened, frame_cbs, life>>

SetVadDetect(handle_ok, vad_detect) ==
    /\ CallerIdle
    /\ handle_ok => HandleUsable
    /\ last_op' = "set_vad_detect"
    /\ IF ~handle_ok
       THEN /\ ret' = "ESP_ERR_INVALID_ARG"
            /\ UNCHANGED <<app, gate_opened>>
       ELSE /\ app' = [app EXCEPT !.vad_detect = vad_detect]
            /\ gate_opened' = (gate_opened \/ vad_detect)
            /\ ret' = "ESP_OK"
    /\ UNCHANGED <<ctx, cfg, now, result_cb, enable_cleared, feed_set, calib, near_90_since>>
    /\ UNCHANGED <<doa, worker_pc, writer, short_writes, kernel_frames, monitor_calls,
                   frame_cbs, life>>

\* audio_doa_app_start: audio_doa_start, then audio_doa_tracker_enable(true);
\* each of the two returns ESP_ERR_INVALID_ARG for a NULL sub-handle, and the
\* first error ends the call
AppStart(handle_ok) ==
    /\ CallerIdle
    /\ handle_ok => HandleUsable
    /\ last_op' = "start"
    /\ IF ~handle_ok \/ life.doa_handle = "null"
       THEN /\ ret' = "ESP_ERR_INVALID_ARG"
            /\ UNCHANGED <<doa, ctx, result_cb>>
       ELSE IF life.tracker_handle = "null"
       THEN /\ doa' = audio_doa_start(doa)
            /\ ret' = "ESP_ERR_INVALID_ARG"
            /\ UNCHANGED <<ctx, result_cb>>
       ELSE /\ doa' = audio_doa_start(doa)
            /\ ctx' = audio_doa_tracker_enable(ctx, TRUE)
            /\ result_cb' = NoResults
            /\ ret' = "ESP_OK"
    /\ UNCHANGED <<cfg, now, enable_cleared, feed_set, calib, near_90_since>>
    /\ UNCHANGED <<app, worker_pc, writer, short_writes, kernel_frames, monitor_calls,
                   gate_opened, frame_cbs, life>>

\* audio_doa_app_stop: audio_doa_stop, then audio_doa_tracker_enable(false),
\* with the same handling of NULL sub-handles
AppStop(handle_ok) ==
    /\ CallerIdle
    /\ handle_ok => HandleUsable
    /\ last_op' = "stop"
    /\ IF ~handle_ok \/ life.doa_handle = "null"
       THEN /\ ret' = "ESP_ERR_INVALID_ARG"
            /\ UNCHANGED <<doa, ctx, result_cb>>
       ELSE IF life.tracker_handle = "null"
       THEN /\ doa' = audio_doa_stop(doa)
            /\ ret' = "ESP_ERR_INVALID_ARG"
            /\ UNCHANGED <<ctx, result_cb>>
       ELSE /\ doa' = audio_doa_stop(doa)
            /\ ctx' = audio_doa_tracker_enable(ctx, FALSE)
            /\ result_cb' = NoResults
            /\ ret' = "ESP_OK"
    /\ UNCHANGED <<cfg, now, enable_cleared, feed_set, calib, near_90_since>>
    /\ UNCHANGED <<app, worker_pc, writer, short_writes, kernel_frames, monitor_calls,
                   gate_opened, frame_cbs, life>>

(***************************************************************************)
(* The worker task audio_doa_thread                                        *)
(***************************************************************************)
\* xEventGroupWaitBits(START_BIT, 10 ms): without the bit the task delays and
\* polls again; with it the task marks the dispatcher running and goes on to
\* the receive
WorkerWaitBits ==
    /\ WorkerExists
    /\ worker_pc = "wait_bits"
    /\ IF doa.start_bit
       THEN /\ doa' = [doa EXCEPT !.state = "RUNNING"]
            /\ worker_pc' = "receive"
       ELSE UNCHANGED <<doa, worker_pc>>
    /\ UNCHANGED <<ctx, cfg, now, ret, last_op, result_cb, enable_cleared, feed_set, calib,
                   near_90_since>>
    /\ UNCHANGED <<app, writer, short_writes, kernel_frames, monitor_calls, gate_opened,
                   frame_cbs, life>>

\* number of bytes xStreamBufferReceive(buf, 2048) copies out once it stops
\* waiting: whatever is there, up to the requested length
receive_count(d) ==
    IF bytes_available(d) < AUDIO_DOA_DATA_BUS_SIZE THEN bytes_available(d)
    ELSE AUDIO_DOA_DATA_BUS_SIZE

\* the angle the worker hands to audio_doa_callback for the frame it has just
\* entered in the smoothing history d.doa_history
frame_direction(d) == doa_angle_calibration(d.filtered_direction)

\* what audio_doa_callback does around the outcome o of the tracker feed: the
\* result callback from inside the feed, the monitor callback after it
FeedOutcome(o, calibrated_direction) ==
    /\ ctx' = o.ctx
    /\ result_cb' = IF o.did = "feed_emitted"
                    THEN RecordResult(result_cb, o.avg_angle, now, o.subsequent)
                    ELSE result_cb
    /\ monitor_calls' = IF app.monitor THEN monitor_calls + 1 ELSE monitor_calls
    /\ near_90_since' = near_90_run(near_90_since, calibrated_direction, now)
    /\ frame_cbs' = <<"tracker_feed">>
                    \o (IF o.did = "feed_emitted" THEN <<"result">> ELSE <<>>)
                    \o (IF app.monitor THEN <<"monitor">> ELSE <<>>)

\* The rest of one loop iteration after xStreamBufferReceive returned
\* bytes_received bytes: a short read is dropped; a full frame goes to
\* esp_doa_process (returning estimated_direction), the smoothing history, the
\* calibration, and the facade's audio_doa_callback, which returns at once when
\* the facade has no tracker and otherwise calls audio_doa_tracker_feed.  The
\* feed reads ctx->enabled: found clear, the feed returns and the callback goes
\* on to the monitor callback; found set, the worker is inside the feed, which
\* holds no lock against the caller's audio_doa_tracker_enable
WorkerHandle(bytes_received, estimated_direction) ==
    IF bytes_received < AUDIO_DOA_DATA_BUS_SIZE
    THEN /\ doa' = [doa EXCEPT !.head = @ + bytes_received]
         /\ worker_pc' = "wait_bits"
         /\ UNCHANGED <<ctx, result_cb, kernel_frames, monitor_calls, frame_cbs, near_90_since>>
    ELSE /\ kernel_frames' = Append(kernel_frames, doa.head)
         /\ doa' = [doa EXCEPT !.head = @ + bytes_received,
                               !.doa_history = [doa.doa_history EXCEPT
                                                   ![doa.doa_history_index] = estimated_direction],
                               !.filtered_direction =
                                   moving_weighted_average(
                                       [doa.doa_history EXCEPT
                                           ![doa.doa_history_index] = estimated_direction],
                                       DOA_WINDOW_SIZE, gaussian_weights, doa.doa_history_index),
                               !.doa_history_index = (@ + 1) % DOA_WINDOW_SIZE]
         /\ IF ~(doa.cb /\ life.tracker_handle = "valid")
            THEN /\ worker_pc' = "wait_bits"
                 /\ UNCHANGED <<ctx, result_cb, monitor_calls, frame_cbs, near_90_since>>
            ELSE IF ~ctx.enabled
            THEN /\ worker_pc' = "wait_bits"
                 /\ \E o \in audio_doa_tracker_feed(ctx, frame_direction(doa'), now) :
                        FeedOutcome(o, frame_direction(doa'))
            ELSE /\ worker_pc' = "feed"
                 /\ UNCHANGED <<ctx, result_cb, monitor_calls, frame_cbs, near_90_since>>

\* xStreamBufferReceive called with data in the buffer returns at once with
\* what is there; called on an empty buffer it blocks
WorkerReceive ==
    /\ WorkerExists
    /\ worker_pc = "receive"
    /\ IF bytes_available(doa) > 0
       THEN \E estimated_direction \in KernelAngles :
                WorkerHandle(receive_count(doa), estimated_direction)
       ELSE /\ worker_pc' = "blocked"
            /\ UNCHANGED <<ctx, result_cb, doa, kernel_frames, monitor_calls, frame_cbs,
                           near_90_since>>
    /\ UNCHANGED <<cfg, now, ret, last_op, enable_cleared, feed_set, calib>>
    /\ UNCHANGED <<app, writer, short_writes, gate_opened, life>>

\* the blocked xStreamBufferReceive returns: the trigger level was reached, or
\* the 10 ms wait ran out; either way it copies out what is there
WorkerReceiveUnblock ==
    /\ WorkerExists
    /\ worker_pc = "blocked"
    /\ \E estimated_direction \in KernelAngles :
          WorkerHandle(receive_count(doa), estimated_direction)
    /\ UNCHANGED <<cfg, now, ret, last_op, enable_cleared, feed_set, calib>>
    /\ UNCHANGED <<app, writer, short_writes, gate_opened, life>>

\* the worker, inside audio_doa_tracker_feed past the enabled check, runs the
\* rest of the feed on the tracker state as it is now, and audio_doa_callback
\* goes on to the monitor callback
WorkerFeed ==
    /\ WorkerExists
    /\ worker_pc = "feed"
    /\ \E o \in feed_past_enabled_check(ctx, frame_direction(doa), now) :
          FeedOutcome(o, frame_direction(doa))
    /\ worker_pc' = "wait_bits"
    /\ UNCHANGED <<cfg, now, ret, last_op, enable_cleared, feed_set, calib>>
    /\ UNCHANGED <<app, doa, writer, short_writes, kernel_frames, gate_opened, life>>

DataWriteAny ==
    \E handle_ok \in BOOLEAN, data_ok \in BOOLEAN, bytes_size \in WriteSizes :
        DataWrite(handle_ok, data_ok, bytes_size)

SetVadDetectAny ==
    \E handle_ok \in BOOLEAN, vad_detect \in BOOLEAN : SetVadDetect(handle_ok, vad_detect)

AppStartAny == \E handle_ok \in BOOLEAN : AppStart(handle_ok)

AppStopAny == \E handle_ok \in BOOLEAN : AppStop(handle_ok)


(***************************************************************************)
(* Construction and destruction of the facade                              *)
(***************************************************************************)
\* the allocation a create call may see fail ("none": all succeed)
FailPoints == {"none", "app", "tracker"} \cup DispatcherResources

\* audio_doa_app_create calls audio_doa_new(&app->doa_handle, NULL) and
\* audio_doa_new evaluates config->distance: a read through a NULL pointer.
\* The read traps, or it yields some float, positive or not.
NullReads == {"trap", "positive", "nonpositive"}

StepIndex(step) == CHOOSE i \in DOMAIN DispatcherSteps : DispatcherSteps[i] = step

\* what audio_doa_new holds when it reaches a step
new_held_before(step) == {DispatcherSteps[j] : j \in 1 .. (StepIndex(step) - 1)}

\* what the failure branch of each step of audio_doa_new releases
new_rollback(step) ==
    CASE step = "doa" -> {}
      [] step = "event_group" -> {"doa"}
      [] step = "stream_buffer" -> {"event_group", "doa"}
      [] step = "kernel" -> {"stream_buffer", "event_group", "doa"}
      [] step = "audio_data" -> {"kernel", "stream_buffer", "event_group", "doa"}
      [] step = "gaussian_weights" ->
             {"audio_data", "kernel", "stream_buffer", "event_group", "doa"}
      [] step = "mic_left" ->
             {"gaussian_weights", "audio_data", "kernel", "stream_buffer", "event_group", "doa"}
      [] step = "mic_right" ->
             {"mic_left", "gaussian_weights", "audio_data", "kernel", "stream_buffer",
              "event_group", "doa"}
      [] step = "task" ->
             {"mic_left", "mic_right", "gaussian_weights", "audio_data", "kernel",
              "stream_buffer", "event_group", "doa"}

new_error(step) == IF step = "task" THEN "ESP_FAIL" ELSE "ESP_ERR_NO_MEM"

\* audio_doa_new(&app->doa_handle, NULL): the return code, what it still holds
\* on return, the mic distance it gave esp_doa_create, and whether the NULL
\* read trapped
audio_doa_new_result(fail_at, null_read) ==
    LET failed(step) ==
            [ret |-> new_error(step), allocated |-> new_held_before(step) \ new_rollback(step),
             distance |-> "none", crashed |-> FALSE]
    IN IF fail_at \in DispatcherResources /\ StepIndex(fail_at) < StepIndex("kernel")
       THEN failed(fail_at)
       ELSE IF null_read = "trap"
       THEN [ret |-> "none", allocated |-> new_held_before("kernel"), distance |-> "none",
             crashed |-> TRUE]
       ELSE IF fail_at \in DispatcherResources
       THEN failed(fail_at)
       ELSE [ret |-> "ESP_OK", allocated |-> DispatcherResources,
             distance |-> IF null_read = "positive" THEN "config" ELSE "default",
             crashed |-> FALSE]

\* audio_doa_tracker_init as create calls it
tracker_init_result(result_callback_ok, fail_at) ==
    IF ~result_callback_ok THEN "ESP_ERR_INVALID_ARG"
    ELSE IF fail_at = "tracker" THEN "ESP_ERR_NO_MEM"
    ELSE "ESP_OK"

\* the values the variables of an instance have when there is none
NoInstance ==
    /\ app = [vad_detect |-> FALSE, monitor |-> FALSE]
    /\ doa = audio_doa_new
    /\ worker_pc = "wait_bits"
    /\ writer = [pc |-> "idle", size |-> 0]
    /\ short_writes = 0
    /\ kernel_frames = <<>>
    /\ monitor_calls = 0
    /\ gate_opened = FALSE
    /\ frame_cbs = <<>>
    /\ ctx = audio_doa_tracker_init(app_tracker_cfg)
    /\ result_cb = NoResults

InitLifecycle ==
    /\ life = NoFacade
    /\ NoInstance
    /\ cfg = app_tracker_cfg
    /\ now = 0
    /\ ret = "ESP_OK"
    /\ last_op = "none"
    /\ enable_cleared = FALSE
    /\ feed_set = {}
    /\ near_90_since = -1
    /\ calib = NoCalibration

\* audio_doa_app_create(handle, config): handle_ok and config_ok say the two
\* pointers are non-NULL, result_callback_ok and monitor that the config holds
\* a result callback and a monitor callback
Create(handle_ok, config_ok, result_callback_ok, monitor, fail_at, null_read) ==
    /\ CallerIdle
    /\ life.allocated = {}
    /\ last_op' = "create"
    /\ UNCHANGED <<cfg, now, enable_cleared, feed_set, calib, near_90_since>>
    /\ UNCHANGED <<worker_pc, writer, short_writes, kernel_frames, monitor_calls, gate_opened,
                   frame_cbs, result_cb>>
    /\ IF ~handle_ok \/ ~config_ok
       THEN /\ ret' = "ESP_ERR_INVALID_ARG"
            /\ UNCHANGED <<life, app, doa, ctx>>
       ELSE IF fail_at = "app"
       THEN \* *handle = calloc(...) = NULL
            /\ ret' = "ESP_ERR_INVALID_ARG"
            /\ life' = NoFacade
            /\ UNCHANGED <<app, doa, ctx>>
       ELSE LET new == audio_doa_new_result(fail_at, null_read)
                tracker_ret == tracker_init_result(result_callback_ok, fail_at)
                published == [NoFacade EXCEPT !.handle = TRUE,
                                              !.allocated = {"app"} \cup new.allocated]
            IN IF new.crashed
               THEN /\ life' = [published EXCEPT !.crashed = TRUE]
                    /\ UNCHANGED <<ret, app, doa, ctx>>
               ELSE IF new.ret # "ESP_OK"
               THEN /\ ret' = new.ret
                    /\ life' = published
                    /\ UNCHANGED <<app, doa, ctx>>
               ELSE IF tracker_ret # "ESP_OK"
               THEN /\ ret' = tracker_ret
                    /\ life' = [published EXCEPT !.doa_handle = "valid",
                                                 !.distance = new.distance]
                    /\ app' = [vad_detect |-> FALSE, monitor |-> monitor]
                    /\ doa' = [audio_doa_new EXCEPT !.cb = TRUE]
                    /\ UNCHANGED ctx
               ELSE /\ ret' = "ESP_OK"
                    /\ life' = LiveFacade(new.distance)
                    /\ app' = [vad_detect |-> FALSE, monitor |-> monitor]
                    /\ doa' = audio_doa_start([audio_doa_new EXCEPT !.cb = TRUE])
                    /\ ctx' = audio_doa_tracker_enable(
                                  audio_doa_tracker_init(app_tracker_cfg), TRUE)

\* audio_doa_app_destroy: audio_doa_delete, audio_doa_tracker_deinit, free(app);
\* the first of the two that returns an error ends the call.  audio_doa_delete
\* stops the dispatcher, waits 100 ms, deletes the worker task and frees
\* everything audio_doa_new allocated.
Destroy(handle_ok) ==
    /\ CallerIdle
    /\ handle_ok => HandleUsable
    /\ last_op' = "destroy"
    /\ UNCHANGED <<cfg, enable_cleared, feed_set, calib, near_90_since>>
    /\ IF ~handle_ok \/ life.doa_handle = "null"
       THEN /\ ret' = "ESP_ERR_INVALID_ARG"
            /\ UNCHANGED <<life, now, ctx, result_cb>>
            /\ UNCHANGED app_vars
       ELSE /\ now' = IF now + pdMS_TO_TICKS(100) <= MaxTick THEN now + pdMS_TO_TICKS(100)
                      ELSE MaxTick
            /\ doa' = audio_doa_new
            /\ worker_pc' = "wait_bits"
            /\ kernel_frames' = <<>>
            /\ monitor_calls' = 0
            /\ frame_cbs' = <<>>
            /\ short_writes' = 0
            /\ UNCHANGED writer
            /\ IF life.tracker_handle = "null"
               THEN /\ ret' = "ESP_ERR_INVALID_ARG"
                    /\ life' = [life EXCEPT !.allocated = @ \ DispatcherResources,
                                            !.doa_handle = "dangling"]
                    /\ UNCHANGED <<app, gate_opened, ctx, result_cb>>
               ELSE /\ ret' = "ESP_OK"
                    /\ life' = [NoFacade EXCEPT !.handle = TRUE]
                    /\ app' = [vad_detect |-> FALSE, monitor |-> FALSE]
                    /\ gate_opened' = FALSE
                    /\ ctx' = audio_doa_tracker_init(app_tracker_cfg)
                    /\ result_cb' = NoResults

CreateAny ==
    /\ life.allocated = {}
    /\ \E handle_ok \in BOOLEAN, config_ok \in BOOLEAN, result_callback_ok \in BOOLEAN,
          monitor \in BOOLEAN, fail_at \in FailPoints, null_read \in NullReads :
           Create(handle_ok, config_ok, result_callback_ok, monitor, fail_at, null_read)

DestroyAny == \E handle_ok \in BOOLEAN : Destroy(handle_ok)

(***************************************************************************)
(* The tracker on its own: init, then enable / feed at arbitrary ticks     *)
(***************************************************************************)
InitTracker ==
    /\ cfg \in TrackerCfgs
    /\ ctx = audio_doa_tracker_init(cfg)
    /\ now = 0
    /\ ret = "ESP_OK"
    /\ last_op = "init"
    /\ result_cb = NoResults
    /\ enable_cleared = FALSE
    /\ feed_set \in FeedSets
    /\ near_90_since = -1
    /\ calib = NoCalibration
    /\ InitDispatcher
    /\ app.monitor = FALSE

Feed(angle) ==
    \E o \in audio_doa_tracker_feed(ctx, angle, now) :
        /\ ctx' = o.ctx
        /\ ret' = o.ret
        /\ last_op' = o.did
        /\ result_cb' = IF o.did = "feed_emitted"
                        THEN RecordResult(result_cb, o.avg_angle, now, o.subsequent)
                        ELSE result_cb
        /\ near_90_since' = near_90_run(near_90_since, angle, now)
        /\ UNCHANGED <<cfg, now, enable_cleared, feed_set, calib>>
        /\ UNCHANGED <<app_vars, life>>

Enable(enable) ==
    /\ ctx' = audio_doa_tracker_enable(ctx, enable)
    /\ ret' = "ESP_OK"
    /\ last_op' = "enable"
    /\ result_cb' = NoResults
    /\ enable_cleared' = (reset_tracker_state(ctx) # ctx)
    /\ UNCHANGED <<cfg, now, feed_set, calib, near_90_since>>
    /\ UNCHANGED <<app_vars, life>>

Tick ==
    /\ now < MaxTick
    /\ now' = now + 1
    /\ UNCHANGED tracker_vars
    /\ UNCHANGED <<app_vars, life>>

FeedAny == \E angle \in feed_set : Feed(angle)

EnableAny == \E enable \in BOOLEAN : Enable(enable)

NextTracker == FeedAny \/ EnableAny \/ Tick

SpecTracker == InitTracker /\ [][NextTracker]_vars

(***************************************************************************)
(* The tracker on its own, fed angles of the range or of its edges         *)
(***************************************************************************)
InitEdge ==
    /\ cfg \in TrackerCfgs
    /\ ctx = audio_doa_tracker_init(cfg)
    /\ now = 0
    /\ ret = "ESP_OK"
    /\ last_op = "init"
    /\ result_cb = NoResults
    /\ enable_cleared = FALSE
    /\ feed_set \in FeedSets \cup {EdgeFeedSet}
    /\ near_90_since = -1
    /\ calib = NoCalibration
    /\ InitDispatcher
    /\ app.monitor = FALSE

SpecEdge == InitEdge /\ [][NextTracker]_vars

(***************************************************************************)
(* The created facade: caller operations interleaved with the worker task  *)
(***************************************************************************)
NextApp ==
    \/ DataWriteAny
    \/ DataWriteUnblock
    \/ SetVadDetectAny
    \/ AppStartAny
    \/ AppStopAny
    \/ WorkerWaitBits
    \/ WorkerReceive
    \/ WorkerReceiveUnblock
    \/ WorkerFeed
    \/ Tick

SpecApp == InitApp /\ [][NextApp]_vars

(***************************************************************************)
(* The seed scenarios: a freshly enabled tracker fed from one seed set     *)
(***************************************************************************)
InitSeed ==
    /\ cfg \in TrackerCfgs
    /\ ctx = audio_doa_tracker_enable(audio_doa_tracker_init(cfg), TRUE)
    /\ now = 0
    /\ ret = "ESP_OK"
    /\ last_op = "enable"
    /\ result_cb = NoResults
    /\ enable_cleared = FALSE
    /\ feed_set \in SeedFeedSets
    /\ near_90_since = -1
    /\ calib = NoCalibration
    /\ InitDispatcher
    /\ app.monitor = FALSE

NextSeed == FeedAny \/ Tick

SpecSeed == InitSeed /\ [][NextSeed]_vars

(***************************************************************************)
(* The calibration on its own: two raw angles, each calibrated             *)
(***************************************************************************)
InitCalibration ==
    /\ cfg = [output_interval_ms |-> 1000, min_angle_change_threshold |-> 0]
    /\ ctx = audio_doa_tracker_init(cfg)
    /\ now = 0
    /\ ret = "ESP_OK"
    /\ last_op = "init"
    /\ result_cb = NoResults
    /\ enable_cleared = FALSE
    /\ feed_set = {}
    /\ near_90_since = -1
    /\ \E raw_a, raw_b \in RawAngles :
           calib = [raw_a |-> raw_a, raw_b |-> raw_b,
                    out_a |-> NotCalibrated, out_b |-> NotCalibrated]
    /\ InitDispatcher
    /\ app.monitor = FALSE

Calibrate ==
    /\ calib.out_a = NotCalibrated
    /\ calib' = [calib EXCEPT !.out_a = doa_angle_calibration(calib.raw_a),
                              !.out_b = doa_angle_calibration(calib.raw_b)]
    /\ UNCHANGED <<ctx, cfg, now, ret, last_op, result_cb, enable_cleared, feed_set,
                   near_90_since>>
    /\ UNCHANGED <<app_vars, life>>

NextCalibration == Calibrate

SpecCalibration == InitCalibration /\ [][NextCalibration]_vars

(***************************************************************************)
(* The whole life of a facade: create, use, destroy                        *)
(***************************************************************************)
NextLifecycle ==
    \/ CreateAny
    \/ DestroyAny
    \/ NextApp

SpecLifecycle == InitLifecycle /\ [][NextLifecycle]_vars

(***************************************************************************)
(* Properties of construction, destruction and argument checking           *)
(***************************************************************************)
\* the allocations among the steps of create (xTaskCreate spawns a task)
AllocationPoints == FailPoints \ {"none", "task"}

\* C11 (as stated): create called with non-NULL handle and config, a result
\* callback in the config and no allocation failing completes and returns
\* ESP_OK, leaving the dispatcher started, the tracker enabled in its reset
\* state, the kernel created with the default mic distance, and the VAD gate
\* closed
C11_CreateCompletes ==
    [][\A monitor \in BOOLEAN, null_read \in NullReads :
           Create(TRUE, TRUE, TRUE, monitor, "none", null_read)
               => /\ ~life'.crashed
                  /\ ret' = "ESP_OK"
                  /\ doa'.start_bit
                  /\ ctx' = audio_doa_tracker_enable(audio_doa_tracker_init(app_tracker_cfg), TRUE)
                  /\ life'.distance = "default"
                  /\ app'.vad_detect = FALSE]_vars

\* C12 (as stated): whenever create returns an error, everything that call
\* allocated or spawned has been released and the caller's handle variable does
\* not refer to an instance
C12_CreateAllOrNothing ==
    [][(CreateAny /\ ~life'.crashed /\ ret' # "ESP_OK")
           => life'.allocated = {} /\ ~life'.handle]_vars

\* C13 (as stated): when destroy reports the error of a sub-component's
\* teardown, the other sub-components and the facade instance have still been
\* released
C13_DestroyBestEffort ==
    [][(Destroy(TRUE) /\ ret' # "ESP_OK") => life'.allocated = {}]_vars

\* C14 (as stated): every facade operation returns ESP_ERR_INVALID_ARG for a
\* NULL handle, data_write also for NULL data or a length <= 0 whatever the VAD
\* gate, create also when the config holds no result callback; and none of
\* these calls enqueues anything
C14_BadArgs ==
    [][/\ \A handle_ok \in BOOLEAN, data_ok \in BOOLEAN, bytes_size \in WriteSizes :
             (DataWrite(handle_ok, data_ok, bytes_size)
                /\ (~handle_ok \/ ~data_ok \/ bytes_size <= 0))
                 => ret' = "ESP_ERR_INVALID_ARG" /\ doa' = doa /\ writer' = writer
       /\ \A vad_detect \in BOOLEAN :
             SetVadDetect(FALSE, vad_detect) => ret' = "ESP_ERR_INVALID_ARG" /\ doa' = doa
       /\ AppStart(FALSE) => ret' = "ESP_ERR_INVALID_ARG" /\ doa' = doa
       /\ AppStop(FALSE) => ret' = "ESP_ERR_INVALID_ARG" /\ doa' = doa
       /\ Destroy(FALSE) => ret' = "ESP_ERR_INVALID_ARG" /\ doa' = doa
       /\ \A config_ok \in BOOLEAN, result_callback_ok \in BOOLEAN, monitor \in BOOLEAN,
             fail_at \in FailPoints, null_read \in NullReads :
             Create(FALSE, config_ok, result_callback_ok, monitor, fail_at, null_read)
                 => ret' = "ESP_ERR_INVALID_ARG" /\ doa' = doa
       /\ \A monitor \in BOOLEAN, null_read \in NullReads :
             Create(TRUE, TRUE, FALSE, monitor, "none", null_read)
                 => /\ ~life'.crashed
                    /\ ret' = "ESP_ERR_INVALID_ARG"
                    /\ doa'.tail = doa.tail]_vars

\* C15 (as stated): the API returns no error code other than
\* ESP_ERR_INVALID_ARG, ESP_ERR_NO_MEM and ESP_FAIL, and a create call in which
\* an allocation fails (that of the facade instance included) returns
\* ESP_ERR_NO_MEM
C15_ErrorCodes ==
    [][/\ ret' \in {"ESP_OK", "ESP_ERR_INVALID_ARG", "ESP_ERR_NO_MEM", "ESP_FAIL"}
       /\ \A monitor \in BOOLEAN, fail_at \in AllocationPoints, null_read \in NullReads :
             (Create(TRUE, TRUE, TRUE, monitor, fail_at, null_read) /\ ~life'.crashed)
                 => ret' = "ESP_ERR_NO_MEM"]_vars

(***************************************************************************)
(* Properties of the dispatcher: writes, start and stop, callbacks         *)
(***************************************************************************)
\* C16: with the VAD gate open, a valid data_write that returns ESP_OK has
\* enqueued all of its bytes, and one whose bytes did not all fit when the wait
\* of xStreamBufferSend ended returns ESP_FAIL
C16_WriteAllOrFailed ==
    [][/\ \A bytes_size \in WriteSizes :
             (bytes_size > 0 /\ app.vad_detect /\ DataWrite(TRUE, TRUE, bytes_size)
                /\ writer'.pc = "idle")
                 => ret' = "ESP_OK" /\ doa'.tail = doa.tail + bytes_size
       /\ DataWriteUnblock
             => /\ ret' = "ESP_OK" => doa'.tail = doa.tail + writer.size
                /\ doa'.tail < doa.tail + writer.size => ret' = "ESP_FAIL"]_vars

\* a data_write found the stream buffer too full, waited, and returned ESP_FAIL
C16_Witness ==
    /\ last_op = "data_write"
    /\ ret = "ESP_FAIL"
    /\ app.vad_detect
    /\ bytes_available(doa) = STREAM_BUFFER_SIZE

\* start and stop of a created facade change nothing of the dispatcher but
\* state and START_BIT, and a second call in a row changes nothing more
StartStopFrame ==
    /\ AppStart(TRUE) => /\ doa' = [doa EXCEPT !.state = "RUNNING", !.start_bit = TRUE]
                         /\ audio_doa_start(doa') = doa'
    /\ AppStop(TRUE) => /\ doa' = [doa EXCEPT !.state = "IDLE", !.start_bit = FALSE]
                        /\ audio_doa_stop(doa') = doa'

\* C17 (as stated): start and stop change only the started flag and are
\* idempotent, and bytes queued at a stop stay queued until the next start
C17_StopKeepsQueued ==
    [][/\ StartStopFrame
       /\ (~doa.start_bit /\ ~doa'.start_bit) => doa'.head = doa.head]_vars

\* C17 (amended): start and stop change only state and START_BIT and are
\* idempotent; after a stop the worker takes bytes from the stream buffer at
\* most once more, in the iteration that had already passed the START_BIT wait:
\* every receive sends it back to that wait, and from there it takes nothing
\* while START_BIT is clear
C17_StopKeepsQueuedAfterWait ==
    [][/\ StartStopFrame
       /\ doa'.head # doa.head => worker_pc' \in {"feed", "wait_bits"}
       /\ worker_pc = "feed" => doa'.head = doa.head /\ worker_pc' \in {"feed", "wait_bits"}
       /\ (~doa.start_bit /\ worker_pc = "wait_bits") => doa'.head = doa.head]_vars

\* the dispatcher was stopped with a frame queued and the worker is back at its
\* START_BIT wait
C17_Witness ==
    /\ last_op = "stop"
    /\ ret = "ESP_OK"
    /\ ~doa.start_bit
    /\ worker_pc = "wait_bits"
    /\ bytes_available(doa) >= AUDIO_DOA_DATA_BUS_SIZE
    /\ kernel_frames # <<>>

\* position of an event among those of the last processed frame (0: absent)
FramePos(e) ==
    IF \E i \in DOMAIN frame_cbs : frame_cbs[i] = e
    THEN CHOOSE i \in DOMAIN frame_cbs : frame_cbs[i] = e
    ELSE 0

\* C18 (as stated): for every processed frame the monitor callback, if
\* installed, is invoked before the tracker is fed, hence before a result
\* callback of that frame
C18_MonitorBeforeTracker ==
    FramePos("monitor") > 0
        => /\ FramePos("tracker_feed") > 0 => FramePos("monitor") < FramePos("tracker_feed")
           /\ FramePos("result") > 0 => FramePos("monitor") < FramePos("result")

\* C35 (as stated): a data_write that returns ESP_FAIL leaves the stream
\* buffer as it was before the call: none of its bytes are enqueued
C35_FailedWriteEnqueuesNothing ==
    [][((DataWriteAny \/ DataWriteUnblock) /\ ret' = "ESP_FAIL")
           => /\ doa'.tail = doa.tail
              /\ doa'.head = doa.head]_vars

(***************************************************************************)
(* Properties of the tracker state under the caller's start and stop       *)
(***************************************************************************)
\* C25 (as stated): however a stop is interleaved with the worker's feed, once
\* the stop has returned and the worker is not inside a feed the tracker is
\* disabled and in the reset state, as long as no start follows
C25_StopLeavesResetState ==
    (last_op = "stop" /\ ret = "ESP_OK" /\ worker_pc # "feed")
        => /\ ~ctx.enabled
           /\ reset_tracker_state(ctx) = ctx

(***************************************************************************)
(* Properties of the seed scenarios                                        *)
(***************************************************************************)
\* C19 (as stated, for a tracker configured with min_angle_change_threshold
\* = 0): a freshly enabled tracker fed only 90 degrees is in front-facing mode
\* from the third feed on, emits 90 on the sixth feed, and afterwards emits on
\* every feed made when output_interval_ms has elapsed since the last emission
C19_SeedOnly90 ==
    [][(feed_set = {Deg(90)} /\ Feed(Deg(90)))
           => /\ ctx'.valid_count >= INITIAL_SAMPLES_TO_CHECK => ctx'.is_front_facing_mode
              /\ ctx.valid_count = DOA_TRACKER_BUFFER_SIZE - 1
                     => last_op' = "feed_emitted" /\ result_cb'.angle = Deg(90)
              /\ (cfg.min_angle_change_threshold = 0 /\ ctx.has_output_angle
                    /\ output_interval_elapsed(ctx, now))
                     => last_op' = "feed_emitted"]_vars

\* C20 (as stated): once the initial probe has found the tracker not
\* front-facing and the buffer holds no near-90 angle (45-degree feeds), and
\* near-90 angles have been fed in a row since a tick at least
\* CONTINUOUS_90_DURATION_MS ago, the next near-90 angle fed is accepted and
\* leaves the tracker in front-facing mode
C20_PromotedAfterContinuous90 ==
    \A angle \in feed_set :
        (/\ is_near_90_degrees(angle)
         /\ ctx.enabled
         /\ ctx.is_not_front_facing_detected
         /\ count_near_90_in_buffer(ctx) = 0
         /\ near_90_since >= 0
         /\ now - near_90_since >= pdMS_TO_TICKS(CONTINUOUS_90_DURATION_MS))
            => \A o \in audio_doa_tracker_feed(ctx, angle, now) :
                   o.did # "feed_rejected" /\ o.ctx.is_front_facing_mode

\* the history is full and holds the angles of seq (in degrees) in slot order
HistoryIs(seq) ==
    /\ ctx.valid_count = DOA_TRACKER_BUFFER_SIZE
    /\ \A i \in Slots : ctx.original_buffer[i] = Deg(seq[i + 1])

\* C21 (as stated): fed 80 and 100, every accepted angle is stored as 90 and
\* every result emitted is 90
C21_SeedAlternatingAll90 ==
    feed_set = {Deg(80), Deg(100)}
        => /\ \A i \in Slots : ctx.valid_mask[i] => ctx.buffer[i] = Deg(90)
           /\ result_cb.count >= 1 => result_cb.angle = Deg(90)

\* C21 (amended): fed 80 and 100, every feed is accepted, 80 is stored as 90 and
\* 100 as 110; a result emitted when the history holds the two in turn lies
\* within 2.5 degrees of 100, and the first result is 100
C21_SeedAlternatingAround100 ==
    feed_set = {Deg(80), Deg(100)}
        => /\ last_op # "feed_rejected"
           /\ \A i \in Slots :
                  ctx.valid_mask[i] =>
                      ctx.buffer[i] = IF ctx.original_buffer[i] = Deg(80)
                                      THEN Deg(90) ELSE Deg(110)
           /\ (last_op = "feed_emitted"
                 /\ (HistoryIs(<<80, 100, 80, 100, 80, 100>>)
                       \/ HistoryIs(<<100, 80, 100, 80, 100, 80>>)))
                  => /\ 2 * Abs(result_cb.angle - Deg(100)) <= Deg(5)
                     /\ ~result_cb.subsequent => result_cb.angle = Deg(100)

\* 80, 100, 80, 100, 80, 100 were fed and the sixth feed emitted 100
C21_Witness ==
    /\ feed_set = {Deg(80), Deg(100)}
    /\ HistoryIs(<<80, 100, 80, 100, 80, 100>>)
    /\ ctx.write_index = 0
    /\ ctx.buffer[1] = Deg(110)
    /\ last_op = "feed_emitted"
    /\ result_cb.count = 1
    /\ result_cb.angle = Deg(100)

\* C22 (as stated): fed 150, 160, 170, 150, 160, 170 the stored values are
\* 150, 150, 170, 150, 150, 170 and the first result, on the sixth feed, is
\* 0.3 * mean + 0.7 * max of them, about 166
C22_SeedRising166 ==
    (HistoryIs(<<150, 160, 170, 150, 160, 170>>)
       /\ last_op = "feed_emitted" /\ ~result_cb.subsequent)
        => /\ \A i \in Slots :
                  ctx.buffer[i] = Deg(<<150, 150, 170, 150, 150, 170>>[i + 1])
           /\ Abs(result_cb.angle - Deg(166)) < Deg(1)

\* C22 (amended): fed 150, 160, 170, 150, 160, 170 the stored values are
\* 150, 170, 170, 150, 170, 170 (160 lies in the interval [160, 180), whose
\* center is 170) and the first result, on the sixth feed, is
\* 0.3 * mean + 0.7 * max of them, 168
C22_SeedRising168 ==
    (HistoryIs(<<150, 160, 170, 150, 160, 170>>)
       /\ last_op = "feed_emitted" /\ ~result_cb.subsequent)
        => /\ \A i \in Slots :
                  ctx.buffer[i] = Deg(<<150, 170, 170, 150, 170, 170>>[i + 1])
           /\ result_cb.angle = Deg(168)

\* the sixth feed of 150, 160, 170, 150, 160, 170 emitted the first result
C22_Witness ==
    /\ feed_set = {Deg(150), Deg(160), Deg(170)}
    /\ HistoryIs(<<150, 160, 170, 150, 160, 170>>)
    /\ ctx.write_index = 0
    /\ last_op = "feed_emitted"
    /\ result_cb.count = 1
    /\ ~result_cb.subsequent

(***************************************************************************)
(* Properties of the tracker                                               *)
(***************************************************************************)
\* the step is a feed that invoked the result callback
ResultStep == FeedAny /\ last_op' = "feed_emitted"

\* C1: while the VAD gate is closed a data_write with valid arguments returns
\* ESP_OK and leaves the stream buffer as it was (nothing enqueued, no send
\* pending); and as long as the gate has never been opened since create the
\* stream buffer is empty and esp_doa_process, the monitor callback and the
\* result callback have not been invoked
C1_ClosedGateWriteEnqueuesNothing ==
    [][/\ \A bytes_size \in WriteSizes :
             (bytes_size > 0 /\ app.vad_detect = FALSE /\ DataWrite(TRUE, TRUE, bytes_size))
                 => /\ ret' = "ESP_OK"
                    /\ doa' = doa
                    /\ writer' = writer
                    /\ kernel_frames' = kernel_frames
                    /\ monitor_calls' = monitor_calls
                    /\ result_cb' = result_cb
       /\ ~gate_opened' => /\ doa'.tail = 0
                           /\ doa'.head = 0
                           /\ kernel_frames' = <<>>
                           /\ monitor_calls' = 0
                           /\ result_cb'.count = 0]_vars

\* a valid short write has returned ESP_OK with the gate never opened, while the
\* started worker sits in its receive on the empty stream buffer
C1_Witness ==
    /\ ~gate_opened
    /\ last_op = "data_write"
    /\ ret = "ESP_OK"
    /\ short_writes > 0
    /\ doa.start_bit
    /\ worker_pc = "blocked"

\* C9 (as stated): the k-th esp_doa_process call receives the k-th 2048-byte
\* block of the enqueued byte stream
C9_FramesInEnqueueOrder ==
    \A k \in DOMAIN kernel_frames : kernel_frames[k] = (k - 1) * AUDIO_DOA_DATA_BUS_SIZE

\* C10 (as stated): the worker removes only whole frames from the stream buffer,
\* so every byte it has removed was passed to esp_doa_process
C10_OnlyWholeFramesRemoved == dropped_bytes = 0

C3_ConsecutiveInterval ==
    [][(ResultStep /\ result_cb.count >= 1 /\ ctx.output_interval_ms > 0)
        => result_cb'.tick - result_cb.tick >= pdMS_TO_TICKS(ctx.output_interval_ms)]_vars

\* C3 (amended): with output_interval_ms > 0, a result emitted in
\* subsequent-output mode comes at least pdMS_TO_TICKS(output_interval_ms)
\* ticks after the previous result.
C3_SubsequentInterval ==
    [][(ResultStep /\ result_cb'.subsequent /\ ctx.output_interval_ms > 0)
        => (result_cb.count >= 1
            /\ result_cb'.tick - result_cb.tick >= pdMS_TO_TICKS(ctx.output_interval_ms))]_vars

\* a subsequent-mode result was emitted under a non-zero interval
C3_Witness ==
    /\ last_op = "feed_emitted"
    /\ result_cb.subsequent
    /\ ctx.output_interval_ms > 0
    /\ result_cb.tick > 0

\* C4: every angle handed to the result callback lies in [0, 180] degrees
\* (all fed angles are in [0, 180]).
C4_ResultInRange ==
    result_cb.count >= 1 => (result_cb.angle >= Deg(0) /\ result_cb.angle <= Deg(180))

\* a first output that went through the lower bias branch: 92 then five 10s
\* give mean 70/3, biased to 14
C4_Witness ==
    /\ last_op = "feed_emitted"
    /\ ~result_cb.subsequent
    /\ result_cb.angle = Deg(14)

\* C5: a result emitted in subsequent-output mode differs from the previous
\* result by at least the tracker's effective min_angle_change_threshold,
\* unless that threshold is 0.
C5_SubsequentMinChange ==
    [][(ResultStep /\ result_cb'.subsequent)
        => (Abs(result_cb'.angle - result_cb.angle) >= ctx.min_angle_change_threshold
            \/ ctx.min_angle_change_threshold = 0)]_vars

\* a subsequent-mode result under a configured (non-default) threshold
C5_Witness ==
    /\ last_op = "feed_emitted"
    /\ result_cb.subsequent
    /\ ctx.min_angle_change_threshold = Deg(10)
    /\ cfg.min_angle_change_threshold = Deg(10)

\* C6: configured with min_angle_change_threshold = 0 the minimum-change filter
\* is off: a feed in subsequent-output mode whose average passes the interval,
\* 90-degree and 40-degree checks emits it, however small the change.  Stated
\* on the state a feed leaves when it stored the angle without emitting.
C6_ZeroDisablesMinChange ==
    (/\ cfg.min_angle_change_threshold = 0
     /\ last_op = "feed_stored"
     /\ ctx.has_output_angle
     /\ ctx.valid_count >= DOA_TRACKER_BUFFER_SIZE
     /\ output_interval_elapsed(ctx, now))
    => LET avg_angle == calculate_average_angle(ctx)
       IN ~(/\ allow_90_check(ctx, avg_angle, now)
            /\ Abs(avg_angle - ctx.last_output_angle) <= REASONABLE_CHANGE_THRESHOLD)

\* C7: while the tracker is disabled a feed returns ESP_OK, does not invoke the
\* result callback and leaves every tracker field unchanged.
C7_DisabledFeedNoOp ==
    [][(FeedAny /\ ~ctx.enabled)
        => (ctx' = ctx /\ ret' = "ESP_OK" /\ last_op' = "feed_disabled"
            /\ result_cb' = result_cb)]_vars

\* a feed was made while the tracker was disabled
C7_Witness == last_op = "feed_disabled" /\ ~ctx.enabled

\* C8: after enable(b) every field other than the configuration has its
\* post-construction value and enabled = b.
C8_EnableResets ==
    [][\A b \in BOOLEAN :
        Enable(b) => ctx' = [audio_doa_tracker_init(cfg) EXCEPT !.enabled = b]]_vars

\* enable was called on a tracker whose state was not the reset state
C8_Witness == last_op = "enable" /\ enable_cleared

(***************************************************************************)
(* Properties of the validity policy                                       *)
(***************************************************************************)
\* C31: a feed whose angle the validity policy rejects does not invoke the
\* result callback, returns ESP_OK and leaves every tracker field unchanged
\* (the history, the counts, the last valid angle, the last output) but the
\* 90-degree timer fields and is_front_facing_mode
C31_RejectedFeedKeepsHistory ==
    [][\A angle \in feed_set :
           (Feed(angle) /\ last_op' = "feed_rejected")
               => /\ result_cb' = result_cb
                  /\ ret' = "ESP_OK"
                  /\ ctx' = [ctx EXCEPT !.has_near_90_start = ctx'.has_near_90_start,
                                        !.first_near_90_tick = ctx'.first_near_90_tick,
                                        !.is_front_facing_mode = ctx'.is_front_facing_mode]]_vars

\* a near-90 angle was rejected after a result had been emitted at a tick
\* other than 0, and the rejection left the 90-degree timer stopped
C31_Witness ==
    /\ last_op = "feed_rejected"
    /\ ctx.valid_count = DOA_TRACKER_BUFFER_SIZE
    /\ ctx.has_output_angle
    /\ ctx.last_output_tick > 0
    /\ ~ctx.has_near_90_start

(***************************************************************************)
(* Properties of the smoothing of the kernel's angles                      *)
(***************************************************************************)
\* the weighted average that pairs gaussian_weights[i] with
\* history[(idx - i) mod DOA_WINDOW_SIZE], over the sum of the weights
AlignedAverage(history, idx) ==
    slot_sum([i \in Window |-> history[(idx - i) % DOA_WINDOW_SIZE] * gaussian_weights[i]],
             DOA_WINDOW_SIZE)
        \div slot_sum(gaussian_weights, DOA_WINDOW_SIZE)

\* the step is the worker's processing of a whole frame
FrameStep == kernel_frames' # kernel_frames

\* the kernel's angle is stored at history[idx] and idx advances mod 7
HistoryStep ==
    /\ \E estimated_direction \in KernelAngles :
           doa'.doa_history = [doa.doa_history EXCEPT
                                  ![doa.doa_history_index] = estimated_direction]
    /\ doa'.doa_history_index = (doa.doa_history_index + 1) % DOA_WINDOW_SIZE

\* C32 (as stated): for each kernel result the angle is stored at history[idx],
\* idx advances mod 7, and the filtered value pairs w[i] with
\* history[(idx - i) mod 7] for the advanced idx: the newest sample has w[1]
C32_SmoothingAdvancedIndex ==
    [][FrameStep
           => /\ HistoryStep
              /\ doa'.filtered_direction
                     = AlignedAverage(doa'.doa_history, doa'.doa_history_index)]_vars

\* C32 (amended): for each kernel result the angle is stored at history[idx],
\* the filtered value pairs w[i] with history[(idx - i) mod 7] for that idx,
\* the slot just written, so that the newest sample has w[0]; idx advances
\* mod 7 after the filter; the filtered value, calibrated, is the angle handed
\* to the callback
C32_SmoothingWrittenIndex ==
    [][FrameStep
           => /\ HistoryStep
              /\ doa'.filtered_direction
                     = AlignedAverage(doa'.doa_history, doa.doa_history_index)
              /\ frame_direction(doa') = doa_angle_calibration(doa'.filtered_direction)]_vars

\* two frames were processed: the two newest samples have the weights w[0] and
\* w[1], the five empty slots the rest
C32_Witness ==
    /\ Len(kernel_frames) = 2
    /\ doa.doa_history_index = 2
    /\ doa.doa_history[1] # 0
    /\ doa.filtered_direction
           = (doa.doa_history[1] * gaussian_weights[0] + doa.doa_history[0] * gaussian_weights[1])
                 \div slot_sum(gaussian_weights, DOA_WINDOW_SIZE)
    /\ doa.filtered_direction > 0

(***************************************************************************)
(* Properties of the indices into the history arrays                       *)
(***************************************************************************)
\* the values of idx with which the loop of check_gradual_change_to_90 reads
\* valid_mask and buffer, from iteration i on
RECURSIVE gradual_indices(_, _, _, _)
gradual_indices(c, i, moving_towards_90, last_checked) ==
    IF ~(i < DOA_TRACKER_BUFFER_SIZE /\ moving_towards_90 < 3) THEN {}
    ELSE LET idx == c_rem(c.write_index - 2 - i + DOA_TRACKER_BUFFER_SIZE,
                          DOA_TRACKER_BUFFER_SIZE)
         IN {idx} \cup
            (IF idx \notin Slots THEN {}
             ELSE IF c.valid_mask[idx]
                  THEN gradual_indices(c, i + 1,
                         IF Abs(c.buffer[idx] - SILENT_ANGLE) < Abs(last_checked - SILENT_ANGLE)
                         THEN moving_towards_90 + 1 ELSE moving_towards_90,
                         c.buffer[idx])
                  ELSE gradual_indices(c, i + 1, moving_towards_90, last_checked))

\* is_angle_valid calls check_gradual_change_to_90 and the call enters the loop
gradual_loop_entered(angle, c, tick) ==
    /\ is_near_90_degrees(angle)
    /\ ~c.is_front_facing_mode
    /\ ~check_continuous_90_duration(start_90_tracking(c, tick), tick).ok
    /\ c.valid_count >= INITIAL_SAMPLES_TO_CHECK
    /\ c.has_last_valid_angle
    /\ ~is_near_90_degrees(c.last_valid_angle)
    /\ Abs(angle - c.last_valid_angle) < GRADUAL_CHANGE_THRESHOLD
    /\ Abs(angle - SILENT_ANGLE) < Abs(c.last_valid_angle - SILENT_ANGLE)

\* the indices a feed of angle computes to read the history arrays with, other
\* than the loop counters 0..5: the loop of check_gradual_change_to_90, the
\* latest index of calculate_average_angle, the write index
feed_indices(angle, c, tick) ==
    {c.write_index,
     c_rem(c.write_index - 1 + DOA_TRACKER_BUFFER_SIZE, DOA_TRACKER_BUFFER_SIZE)}
    \cup (IF gradual_loop_entered(angle, c, tick)
          THEN gradual_indices(c, 0, 0, c.last_valid_angle)
          ELSE {})

\* C33 (as stated): in every feed, from every reachable tracker state, each
\* index the feed reads buffer, original_buffer or valid_mask with lies in
\* 0..5, the idx of check_gradual_change_to_90 included
C33_FeedIndicesInRange ==
    ctx.enabled => \A angle \in feed_set : feed_indices(angle, ctx, now) \subseteq Slots

MajorJumpFeed(angle) ==
    /\ Feed(angle)
    /\ ctx.enabled
    /\ ctx.valid_count = DOA_TRACKER_BUFFER_SIZE
    /\ Abs(angle - calculate_average_angle(ctx)) > MAJOR_ANGLE_CHANGE_THRESHOLD
    /\ last_op' # "feed_rejected"

\* the centers of the nine 20-degree intervals of [0, 180]
QuantizedAngles == {Deg(20 * k + 10) : k \in 0 .. 8}

\* C23: every occupied slot of the history holds the center of one of the nine
\* intervals, whatever angle was fed: 180, above 180 or below 0
C23_StoredIsIntervalCenter ==
    \A i \in Slots : ctx.valid_mask[i] => ctx.buffer[i] \in QuantizedAngles

\* 180, an angle above the range and one below it are stored as 170, 170, 10
C23_Witness ==
    \E i, j, k \in Slots :
        /\ ctx.valid_mask[i] /\ ctx.original_buffer[i] = Deg(180)
        /\ ctx.buffer[i] = Deg(170)
        /\ ctx.valid_mask[j] /\ ctx.original_buffer[j] = Deg(200)
        /\ ctx.buffer[j] = Deg(170)
        /\ ctx.valid_mask[k] /\ ctx.original_buffer[k] = Deg(0 - 5)
        /\ ctx.buffer[k] = Deg(10)

\* C26: after an accepted feed that is a major jump the tracker holds exactly
\* that one sample in slot 0, the mode flags, the 90-degree timer and the
\* last-output state are cleared, and the feed emits no result
C26_MajorJumpResets ==
    [][\A angle \in feed_set :
           MajorJumpFeed(angle)
               => /\ ctx'.valid_count = 1
                  /\ ctx'.write_index = 1
                  /\ ctx'.valid_mask = [i \in Slots |-> i = 0]
                  /\ ctx'.buffer[0] = quantize_angle(angle)
                  /\ ~ctx'.is_front_facing_mode
                  /\ ~ctx'.is_not_front_facing_detected
                  /\ ~ctx'.has_near_90_start
                  /\ ~ctx'.has_output_angle
                  /\ ctx'.last_output_angle = 0
                  /\ ctx'.last_output_tick = 0
                  /\ last_op' = "feed_stored"
                  /\ result_cb' = result_cb]_vars

\* a major jump came after a result had been emitted: one sample held, no
\* last output left
C26_Witness ==
    /\ last_op = "feed_stored"
    /\ result_cb.count >= 1
    /\ ctx.valid_count = 1
    /\ ctx.write_index = 1
    /\ ~ctx.has_output_angle

\* C27: valid_count is the number of occupied slots and lies in 0..6,
\* write_index lies in 0..5, and initial_samples_count is 0 or 3
C27_CountsConsistent ==
    /\ ctx.valid_count = Cardinality({i \in Slots : ctx.valid_mask[i]})
    /\ ctx.valid_count \in 0 .. DOA_TRACKER_BUFFER_SIZE
    /\ ctx.write_index \in Slots
    /\ ctx.initial_samples_count \in {0, INITIAL_SAMPLES_TO_CHECK}

\* the history is full and the write index has wrapped past slot 0
C27_Witness ==
    /\ ctx.valid_count = DOA_TRACKER_BUFFER_SIZE
    /\ ctx.write_index = 2
    /\ ctx.initial_samples_count = INITIAL_SAMPLES_TO_CHECK
    /\ last_op = "feed_stored"

\* C28 (as stated): buffer_mostly_90 holds exactly when the history is not
\* empty and the occupied slots whose original angle is near 90 number at least
\* the ceiling of valid_count * 2/3
C28_MostlyNinetyIsCeiling ==
    buffer_mostly_90(ctx)
        <=> (ctx.valid_count > 0 /\ 3 * count_near_90_in_buffer(ctx) >= 2 * ctx.valid_count)

(***************************************************************************)
(* Properties of the initial-samples probe and of the 90-degree output     *)
(***************************************************************************)
\* check_initial_samples takes its decision in this step
ProbeFires ==
    ctx.initial_samples_count = 0 /\ ctx'.initial_samples_count = INITIAL_SAMPLES_TO_CHECK

\* C29 (as stated): the probe does not fire once a result has been emitted
\* since the last enable call, that is, not a second time between two
\* consecutive enable calls
C29_ProbeOncePerEnable ==
    [][~(ProbeFires /\ result_cb.count >= 1)]_vars

\* C29 (amended): the probe has fired exactly when three samples have been
\* stored since the tracker state was last reset (by an enable call or by a
\* major-jump reset, which re-arms it); it fires on the third of them, with
\* slots 0..2 holding the three samples, and sets a mode flag; until the next
\* reset it leaves is_not_front_facing_detected alone
C29_ProbeOncePerReset ==
    [][/\ (ctx'.initial_samples_count = INITIAL_SAMPLES_TO_CHECK)
              <=> (ctx'.valid_count >= INITIAL_SAMPLES_TO_CHECK)
       /\ ProbeFires
              => /\ ctx'.valid_count = INITIAL_SAMPLES_TO_CHECK
                 /\ ctx'.write_index = INITIAL_SAMPLES_TO_CHECK
                 /\ ctx'.is_front_facing_mode \/ ctx'.is_not_front_facing_detected
       /\ (ctx.initial_samples_count = INITIAL_SAMPLES_TO_CHECK
             /\ ctx'.initial_samples_count = INITIAL_SAMPLES_TO_CHECK)
              => ctx'.is_not_front_facing_detected = ctx.is_not_front_facing_detected]_vars

\* the probe has fired again after a result was emitted: a major jump came in
\* between
C29_Witness ==
    /\ result_cb.count >= 1
    /\ ctx.initial_samples_count = INITIAL_SAMPLES_TO_CHECK
    /\ ctx.valid_count = INITIAL_SAMPLES_TO_CHECK
    /\ ~ctx.has_output_angle

\* C30: a subsequent output within 5 degrees of 90 is emitted only when at
\* least two thirds of the stored original angles are near 90 and the tracker
\* is in front-facing mode or its 90-degree timer has run for
\* CONTINUOUS_90_DURATION_MS
C30_NinetyOutputGuarded ==
    [][(ResultStep /\ result_cb'.subsequent
          /\ Abs(result_cb'.angle - SILENT_ANGLE) < Deg(5))
           => /\ ctx'.valid_count > 0
              /\ 3 * count_near_90_in_buffer(ctx') >= 2 * ctx'.valid_count
              /\ \/ ctx'.is_front_facing_mode
                 \/ /\ ctx'.has_near_90_start
                    /\ now - ctx'.first_near_90_tick
                           >= pdMS_TO_TICKS(CONTINUOUS_90_DURATION_MS)]_vars

\* a subsequent output within 5 degrees of 90 was emitted
C30_Witness ==
    /\ last_op = "feed_emitted"
    /\ result_cb.subsequent
    /\ Abs(result_cb.angle - SILENT_ANGLE) < Deg(5)
    /\ result_cb.tick = now

\* both mode flags are set
BothModeFlags(c) == c.is_front_facing_mode /\ c.is_not_front_facing_detected

\* C34 (as stated): in no reachable state are is_front_facing_mode and
\* is_not_front_facing_detected both true
C34_ModeFlagsExclusive == ~BothModeFlags(ctx)

\* C34 (amended): the probe sets is_not_front_facing_detected exactly when it
\* does not find all three samples near 90, and is_front_facing_mode otherwise;
\* the two flags become both true only in an accepted feed, in one of two
\* ways: the feed is of a near-90 angle made when the 90-degree timer has run
\* CONTINUOUS_90_DURATION_MS, which promotes a tracker that the probe has
\* found, or in this feed finds, not front-facing; or the probe fires, finding
\* it not front-facing, on a tracker the timer has promoted before
C34_BothFlagsOnlyByPromotion ==
    [][/\ ProbeFires
            => (ctx'.is_not_front_facing_detected
                    <=> initial_probe(ctx', 0, 0, 0).near_90_count < INITIAL_SAMPLES_TO_CHECK)
       /\ (ProbeFires /\ ~ctx'.is_not_front_facing_detected) => ctx'.is_front_facing_mode
       /\ (BothModeFlags(ctx') /\ ~BothModeFlags(ctx))
            => /\ last_op' \in {"feed_stored", "feed_emitted"}
               /\ \/ /\ ~ctx.is_front_facing_mode
                     /\ \E angle \in feed_set : Feed(angle) /\ is_near_90_degrees(angle)
                     /\ ctx'.has_near_90_start
                     /\ now - ctx'.first_near_90_tick
                            >= pdMS_TO_TICKS(CONTINUOUS_90_DURATION_MS)
                  \/ /\ ctx.is_front_facing_mode
                     /\ ~ctx.is_not_front_facing_detected
                     /\ ProbeFires]_vars

\* the probe found the tracker not front-facing and the timer has promoted
\* it since, with the history full
C34_Witness ==
    /\ BothModeFlags(ctx)
    /\ ctx.initial_samples_count = INITIAL_SAMPLES_TO_CHECK
    /\ ctx.valid_count = DOA_TRACKER_BUFFER_SIZE
    /\ ctx.has_near_90_start
    /\ now - ctx.first_near_90_tick >= pdMS_TO_TICKS(CONTINUOUS_90_DURATION_MS)

====
